---- MODULE Spec2Model ----
(***************************************************************************)
(* Endless runner (Phaser 3), module-split variant: src/game.js lines      *)
(* 1..4096 together with the managers of src/features/CloudManager.js.     *)
(*                                                                         *)
(* game    : the fields of the GameScene instance, the physics world and   *)
(*           the scene clock it owns                                       *)
(* storage : the localStorage keys the game reads and writes               *)
(* scene   : the scene the scene manager is running                        *)
(* hist    : history of the run, kept for the properties only: ticks and   *)
(*           levelUps count the update() calls that ran and the levelUp()  *)
(*           calls of the run, reviveCoins the revive coins spawned since  *)
(*           the last level-up, saved the leaderboard writes of the run,   *)
(*           over the game-over handler that ran last, via the handler     *)
(*           that began the current stretch of play, run the number of     *)
(*           runs begun in this scene (create, performRestart), uses the   *)
(*           useRevive calls since the last revive coin was collected,     *)
(*           coins the ordinary coins collected in the run,                *)
(*           base the games-played counter the page was loaded with        *)
(*                                                                         *)
(* Units: speed and velocities are in 1/1000 px/s, positions in 1/1000 px, *)
(* so that SPEED_INCREMENT (0.005) is the integer 5.                       *)
(***************************************************************************)
EXTENDS Integers, Sequences, FiniteSets, TLC

VARIABLES game, storage, scene, hist

vars == <<game, storage, scene, hist>>

(***************************************************************************)
(* GAME_CONFIG                                                             *)
(***************************************************************************)
PLAYER_START_X == 100000
PLAYER_START_Y == 300000
GROUND_Y == 520000
REVIVE_Y == 200000
OBSTACLE_SPAWN_X == 800000
COIN_SPAWN_X == 800000
OFFSCREEN_X == -50000
INITIAL_SPEED == 150000
INITIAL_SPAWN_DELAY == 1500
SPEED_INCREMENT == 5
LEVEL_SPEED_BONUS == 20000
SPAWN_DELAY_REDUCTION == 150
MIN_SPAWN_DELAY == 500
SCORE_PER_COIN == 10
SCORE_PER_LEVEL == 100
JUMP_VELOCITY == -420000
DOUBLE_JUMP_VELOCITY == -360000
GRAVITY == 800000
AD_INTERVAL == 3
LEADERBOARD_KEEP == 100
TOP_N == 10

(***************************************************************************)
(* Bounds of the model                                                     *)
(***************************************************************************)
MaxScore == 10
MaxTicks == 2
MaxGames == 3
MaxObjects == 1
MaxPopups == 1
StepMs == 6000
MaxScoreLevel == 200
MaxTicksLevel == 20
MaxGamesLevel == 2
MaxScoreLB == 30
MaxTicksLB == 3
MaxGamesLB == 2
MaxScoreCap == 30
MaxTicksCap == 3
MaxGamesCap == 2
MaxScoreAds == 10
MaxTicksAds == 1
MaxGamesAds == 3
MaxScoreCorrupt == 10
MaxTicksCorrupt == 1
MaxGamesCorrupt == 2
MaxScoreLive == 10
MaxTicksLive == 2
MaxGamesLive == 2
MaxLevel == 10

Names == {"Anonymous", "ann"}

(* what the player types into the username box *)
Typed == Names \cup {"", " ", " ann "}

Max(a, b) == IF a >= b THEN a ELSE b

(* the y of a player at rest (a 40 px body, 8 px below the top of the      *)
(* 52 px sprite, standing on the 40 px ground centred at GROUND_Y) and the *)
(* y the model gives a player in flight: the framework integrates the      *)
(* body, the model keeps the two cases apart                               *)
GROUND_REST_Y == GROUND_Y - 22000
AIR_Y == PLAYER_START_Y

FALL_VELOCITY == GRAVITY

(***************************************************************************)
(* ScoreManager and SettingsManager (src/features/CloudManager.js)         *)
(***************************************************************************)
Today == "today"

(* localStorage holds texts.  A key whose text the program wrote is held   *)
(* as the value written; s.unparseable is the set of keys whose text is    *)
(* not a number or not JSON (the record then holds 0 or <<>> for the key). *)
(* setItem replaces the text, whatever it was.                             *)
setItem(s, key, v) == [s EXCEPT ![key] = v, !.unparseable = @ \ {key}]

(* parseInt(localStorage.getItem(key)) || 0 *)
parseIntOr0(s, key) == IF key \in s.unparseable THEN 0 ELSE s[key]

getCurrentScore(s) == parseIntOr0(s, "currentScore")
setCurrentScore(s, v) == setItem(s, "currentScore", v)
getHighScore(s) == parseIntOr0(s, "highScore")
setHighScore(s, v) == setItem(s, "highScore", v)
getGamePlayCount(s) == parseIntOr0(s, "gamePlayCount")
getAdViewCount(s) == parseIntOr0(s, "adViewCount")
incrementGamePlayCount(s) == setItem(s, "gamePlayCount", getGamePlayCount(s) + 1)
incrementAdViewCount(s) == setItem(s, "adViewCount", getAdViewCount(s) + 1)
getUsername(s) == s.username
getShowAds(s) == s.showAds # "false"
setShowAds(s, show) == [s EXCEPT !.showAds = IF show THEN "true" ELSE "false"]
(* JSON.parse throws a SyntaxError on a text that is not JSON *)
JSONparseThrows(s, key) == key \in s.unparseable

(* try { JSON.parse(...) || [] } catch { [] } *)
getLeaderboard(s) == IF JSONparseThrows(s, "leaderboard") THEN <<>> ELSE s.leaderboard
clearLeaderboard(s) == setItem(s, "leaderboard", <<>>)

(* Array.prototype.sort with (a, b) => b.score - a.score: a stable sort,   *)
(* highest score first, entries of equal score in their previous order     *)
RECURSIVE byScore(_, _)
byScore(lb, scores) ==
  IF scores = {} THEN <<>>
  ELSE LET top == CHOOSE v \in scores : \A u \in scores : v >= u
       IN  SelectSeq(lb, LAMBDA e : e.score = top) \o byScore(lb, scores \ {top})

(* the push of addToLeaderboard without the sort that follows it *)
sortNothing(lb) == lb

sortByScore(lb) == byScore(lb, {lb[i].score : i \in 1..Len(lb)})

(* a splice that cuts the front of the array instead of its tail *)
keepLast(lb) ==
  IF Len(lb) > LEADERBOARD_KEEP THEN SubSeq(lb, Len(lb) - LEADERBOARD_KEEP + 1, Len(lb)) ELSE lb

(* leaderboard.splice(100) when longer than 100 *)
keepTop(lb) ==
  IF Len(lb) > LEADERBOARD_KEEP THEN SubSeq(lb, 1, LEADERBOARD_KEEP) ELSE lb

addToLeaderboard(s, score, level, username) ==
  LET newEntry == [score |-> score, date |-> Today, level |-> level,
                   username |-> IF username = "" THEN "Anonymous" ELSE username]
      pushed == Append(getLeaderboard(s), newEntry)
  IN  setItem(s, "leaderboard", keepTop(sortByScore(pushed)))

(* a rewrite that gives every entry the new name *)
updateAllUsernames(s, oldUsername, newUsername) ==
  LET lb == getLeaderboard(s)
  IN  [s EXCEPT !.leaderboard =
         [i \in 1..Len(lb) |-> [lb[i] EXCEPT !.username = newUsername]]]

updateLeaderboardUsernames(s, oldUsername, newUsername) ==
  LET lb == getLeaderboard(s)
      updated == \E i \in 1..Len(lb) : lb[i].username = oldUsername
  IN  IF updated
      THEN setItem(s, "leaderboard",
                   [i \in 1..Len(lb) |->
                      IF lb[i].username = oldUsername
                      THEN [lb[i] EXCEPT !.username = newUsername] ELSE lb[i]])
      ELSE s

(***************************************************************************)
(* GameScene (src/game.js 3158..3904).  A handler takes and returns the    *)
(* world w = [g: the scene, s: localStorage, h: the run's history].        *)
(***************************************************************************)
NewPlayer(x, y) == [x |-> x, y |-> y, vy |-> 0, touchingDown |-> FALSE]

initializeGameState(g, s) ==
  [g EXCEPT !.score = getCurrentScore(s),
            !.level = 1,
            !.speed = INITIAL_SPEED,
            !.spawnDelay = INITIAL_SPAWN_DELAY,
            !.canDoubleJump = TRUE,
            !.gameOver = FALSE,
            !.isPaused = FALSE,
            !.gameStarted = FALSE,
            !.reviveGivenThisLevel = FALSE,
            !.highScore = getHighScore(s),
            !.revive = FALSE,
            !.gamePlayCount = getGamePlayCount(s),
            !.adViewCount = getAdViewCount(s)]

NewRun(h, via) ==
  [h EXCEPT !.ticks = 0, !.reviveCoins = 0, !.levelUps = 0, !.saved = 0,
            !.over = "no", !.via = via, !.run = @ + 1, !.uses = 0, !.coins = 0]

(* create(): state, objects, physics paused by setupUI, a paused repeating *)
(* spawn timer; a scene that starts has no popup and no pending timer      *)
create(w) ==
  LET g0 == initializeGameState(w.g, w.s)
  IN  [w EXCEPT !.g = [g0 EXCEPT !.player = NewPlayer(PLAYER_START_X, PLAYER_START_Y - 10000),
                                 !.obstacles = <<>>,
                                 !.coins = <<>>,
                                 !.physicsPaused = TRUE,
                                 !.timerPaused = TRUE,
                                 !.timerDelay = g0.spawnDelay,
                                 !.popups = <<>>],
                !.h = NewRun(w.h, "create")]

showAdPopup(w) ==
  [w EXCEPT !.g.adViewCount = @ + 1,
            !.s = incrementAdViewCount(w.s),
            !.g.popups = Append(@, [active |-> TRUE, timer |-> TRUE])]

performStartGame(w) ==
  [w EXCEPT !.g.physicsPaused = FALSE,
            !.g.timerPaused = FALSE,
            !.g.revive = FALSE,
            !.h.via = "start"]

(* a start that keeps the score the scene was created with *)
startGameKeepsScore(w) ==
  LET w1 == [w EXCEPT !.g.gameStarted = TRUE,
                      !.g.gamePlayCount = @ + 1,
                      !.s = setItem(w.s, "gamePlayCount", w.g.gamePlayCount + 1)]
      adsEnabled == w1.s.showAds = "true"
  IN  IF adsEnabled /\ w1.g.gamePlayCount % AD_INTERVAL = 0
      THEN showAdPopup(w1)
      ELSE performStartGame(w1)

startGame(w) ==
  LET w1 == [w EXCEPT !.g.gameStarted = TRUE,
                      !.g.score = 0,
                      !.g.gamePlayCount = @ + 1,
                      !.s = setItem(setItem(w.s, "currentScore", 0),
                                    "gamePlayCount", w.g.gamePlayCount + 1)]
      adsEnabled == w1.s.showAds = "true"
  IN  IF adsEnabled /\ w1.g.gamePlayCount % AD_INTERVAL = 0
      THEN showAdPopup(w1)
      ELSE performStartGame(w1)

(* a restart that leaves the spawn timer at the delay of the last run *)
performRestartOldTimer(w) ==
  [w EXCEPT !.g.gameOver = FALSE,
            !.g.score = 0,
            !.s = setCurrentScore(w.s, 0),
            !.g.level = 1,
            !.g.speed = INITIAL_SPEED,
            !.g.spawnDelay = INITIAL_SPAWN_DELAY,
            !.g.canDoubleJump = TRUE,
            !.g.player = [@ EXCEPT !.x = PLAYER_START_X, !.y = PLAYER_START_Y, !.vy = 0],
            !.g.obstacles = <<>>,
            !.g.coins = <<>>,
            !.g.revive = FALSE,
            !.g.physicsPaused = FALSE,
            !.g.timerPaused = FALSE,
            !.h = NewRun(w.h, "restart")]

performRestart(w) ==
  [w EXCEPT !.g.gameOver = FALSE,
            !.g.score = 0,
            !.s = setCurrentScore(w.s, 0),
            !.g.level = 1,
            !.g.speed = INITIAL_SPEED,
            !.g.spawnDelay = INITIAL_SPAWN_DELAY,
            !.g.canDoubleJump = TRUE,
            !.g.player = [@ EXCEPT !.x = PLAYER_START_X, !.y = PLAYER_START_Y, !.vy = 0],
            !.g.obstacles = <<>>,
            !.g.coins = <<>>,
            !.g.revive = FALSE,
            !.g.physicsPaused = FALSE,
            !.g.timerPaused = FALSE,
            !.g.timerDelay = INITIAL_SPAWN_DELAY,
            !.h = NewRun(w.h, "restart")]

(* a restart that shows the ad whatever the setting says *)
restartGameAlwaysAds(w) ==
  LET w1 == [w EXCEPT !.g.gamePlayCount = @ + 1,
                      !.s = incrementGamePlayCount(w.s)]
  IN  IF w1.g.gamePlayCount % AD_INTERVAL = 0
      THEN showAdPopup(w1)
      ELSE performRestart(w1)

(* a restart that counts the game in the scene and not in localStorage *)
restartGameUncounted(w) ==
  LET w1 == [w EXCEPT !.g.gamePlayCount = @ + 1]
      adsEnabled == getShowAds(w1.s)
  IN  IF adsEnabled /\ w1.g.gamePlayCount % AD_INTERVAL = 0
      THEN showAdPopup(w1)
      ELSE performRestart(w1)

restartGame(w) ==
  LET w1 == [w EXCEPT !.g.gamePlayCount = @ + 1,
                      !.s = incrementGamePlayCount(w.s)]
      adsEnabled == getShowAds(w1.s)
  IN  IF adsEnabled /\ w1.g.gamePlayCount % AD_INTERVAL = 0
      THEN showAdPopup(w1)
      ELSE performRestart(w1)

(* a jump that never uses the double jump up *)
jumpUnlimited(w) ==
  IF w.g.player.touchingDown
  THEN [w EXCEPT !.g.player.vy = JUMP_VELOCITY, !.g.canDoubleJump = TRUE]
  ELSE IF w.g.canDoubleJump
  THEN [w EXCEPT !.g.player.vy = DOUBLE_JUMP_VELOCITY]
  ELSE w

jump(w) ==
  IF w.g.player.touchingDown
  THEN [w EXCEPT !.g.player.vy = JUMP_VELOCITY, !.g.canDoubleJump = TRUE]
  ELSE IF w.g.canDoubleJump
  THEN [w EXCEPT !.g.player.vy = DOUBLE_JUMP_VELOCITY, !.g.canDoubleJump = FALSE]
  ELSE w

(* saveScoreToLeaderboard of the single-file build (src/game.js 7518):     *)
(* JSON.parse outside any try, the top 10 kept.  A SyntaxError leaves the  *)
(* callback at this line.                                                   *)
saveScoreToLeaderboardInline(w) ==
  IF JSONparseThrows(w.s, "leaderboard") THEN [w EXCEPT !.h.error = TRUE]
  ELSE LET newEntry == [score |-> w.g.score, date |-> Today, level |-> w.g.level,
                        username |-> IF w.s.username = "" THEN "Anonymous" ELSE w.s.username]
           sorted == sortByScore(Append(w.s.leaderboard, newEntry))
           topScores == SubSeq(sorted, 1, IF Len(sorted) < TOP_N THEN Len(sorted) ELSE TOP_N)
       IN  [w EXCEPT !.s = setItem(w.s, "leaderboard", topScores),
                     !.h.saved = @ + 1]

saveScoreToLeaderboard(w) ==
  IF w.g.score <= 0 THEN w
  ELSE IF w.h.build = "single"
  THEN saveScoreToLeaderboardInline(w)
  ELSE [w EXCEPT !.s = addToLeaderboard(w.s, w.g.score, w.g.level, getUsername(w.s)),
                 !.h.saved = @ + 1]

handleReviveGameOver(w) ==
  [w EXCEPT !.g.gameOver = TRUE,
            !.g.physicsPaused = TRUE,
            !.g.timerPaused = TRUE,
            !.h.over = "revive"]

handleNormalGameOver(w) ==
  LET w1 == saveScoreToLeaderboard(
              [w EXCEPT !.g.gameOver = TRUE,
                        !.g.physicsPaused = TRUE,
                        !.g.timerPaused = TRUE])
      w2 == IF w1.g.score > w1.g.highScore
            THEN [w1 EXCEPT !.g.highScore = w1.g.score,
                            !.s = setItem(w1.s, "highScore", w1.g.score)]
            ELSE w1
  IN  IF w1.h.error THEN w1
      ELSE [w2 EXCEPT !.g.revive = FALSE, !.h.over = "normal"]

hitObstacle(w) ==
  IF w.g.revive THEN handleReviveGameOver(w) ELSE handleNormalGameOver(w)

(* a revive that leaves the token with the player *)
useReviveKeepsToken(w) ==
  IF ~w.g.revive THEN w
  ELSE [w EXCEPT !.g.gameOver = FALSE,
                 !.g.player = [@ EXCEPT !.x = PLAYER_START_X, !.y = REVIVE_Y, !.vy = 0],
                 !.g.physicsPaused = FALSE,
                 !.g.timerPaused = FALSE,
                 !.h.over = "no",
                 !.h.via = "revive",
                 !.h.uses = @ + 1]

(* a revive that starts the speed ramp again *)
useReviveSlow(w) ==
  IF ~w.g.revive THEN w
  ELSE [w EXCEPT !.g.gameOver = FALSE,
                 !.g.revive = FALSE,
                 !.g.speed = INITIAL_SPEED,
                 !.g.player = [@ EXCEPT !.x = PLAYER_START_X, !.y = REVIVE_Y, !.vy = 0],
                 !.g.physicsPaused = FALSE,
                 !.g.timerPaused = FALSE,
                 !.h.over = "no",
                 !.h.via = "revive",
                 !.h.uses = @ + 1]

useRevive(w) ==
  IF ~w.g.revive THEN w
  ELSE [w EXCEPT !.g.gameOver = FALSE,
                 !.g.revive = FALSE,
                 !.g.player = [@ EXCEPT !.x = PLAYER_START_X, !.y = REVIVE_Y, !.vy = 0],
                 !.g.physicsPaused = FALSE,
                 !.g.timerPaused = FALSE,
                 !.h.over = "no",
                 !.h.via = "revive",
                 !.h.uses = @ + 1]

spawnObstacle(w) ==
  [w EXCEPT !.g.obstacles = Append(@, [x |-> OBSTACLE_SPAWN_X, vx |-> -w.g.speed])]

(* a spawn that does not record that the level has had its revive coin *)
spawnCoinUnflagged(w, roll) ==
  IF ~w.g.reviveGivenThisLevel /\ roll
  THEN [w EXCEPT !.g.coins = Append(@, [kind |-> "coin_revive", x |-> COIN_SPAWN_X, vx |-> -w.g.speed]),
                 !.h.reviveCoins = @ + 1]
  ELSE [w EXCEPT !.g.coins = Append(@, [kind |-> "coin", x |-> COIN_SPAWN_X, vx |-> -w.g.speed])]

(* roll is Phaser.Math.Between(1, 100) <= REVIVE_CHANCE *)
spawnCoin(w, roll) ==
  IF ~w.g.reviveGivenThisLevel /\ roll
  THEN [w EXCEPT !.g.coins = Append(@, [kind |-> "coin_revive", x |-> COIN_SPAWN_X, vx |-> -w.g.speed]),
                 !.g.reviveGivenThisLevel = TRUE,
                 !.h.reviveCoins = @ + 1]
  ELSE [w EXCEPT !.g.coins = Append(@, [kind |-> "coin", x |-> COIN_SPAWN_X, vx |-> -w.g.speed])]

(* the callback of the repeating spawn timer *)
spawnTimerCallback(w, roll) ==
  IF ~w.g.gameOver /\ ~w.g.isPaused
  THEN spawnCoin(spawnObstacle(w), roll)
  ELSE w

togglePause(w) ==
  IF ~w.g.isPaused
  THEN [w EXCEPT !.g.isPaused = TRUE, !.g.physicsPaused = TRUE, !.g.timerPaused = TRUE]
  ELSE [w EXCEPT !.g.isPaused = FALSE, !.g.physicsPaused = FALSE, !.g.timerPaused = FALSE]

(* a level-up that lowers the delay without the floor *)
levelUpNoFloor(w, newLevel) ==
  LET delay == INITIAL_SPAWN_DELAY - (newLevel - 1) * SPAWN_DELAY_REDUCTION
  IN  [w EXCEPT !.g.level = newLevel,
                !.g.speed = @ + LEVEL_SPEED_BONUS * (newLevel - 1),
                !.g.spawnDelay = delay,
                !.g.timerDelay = delay,
                !.g.reviveGivenThisLevel = FALSE,
                !.h.reviveCoins = 0,
                !.h.levelUps = @ + 1]

levelUp(w, newLevel) ==
  LET delay == Max(MIN_SPAWN_DELAY,
                   INITIAL_SPAWN_DELAY - (newLevel - 1) * SPAWN_DELAY_REDUCTION)
  IN  [w EXCEPT !.g.level = newLevel,
                !.g.speed = @ + LEVEL_SPEED_BONUS * (newLevel - 1),
                !.g.spawnDelay = delay,
                !.g.timerDelay = delay,
                !.g.reviveGivenThisLevel = FALSE,
                !.h.reviveCoins = 0,
                !.h.levelUps = @ + 1]

(* a tick that gives the objects the current speed and destroys none *)
sweepNothing(objs, speed) == [i \in 1..Len(objs) |-> [objs[i] EXCEPT !.vx = -speed]]

(* objects left of x = -50 are destroyed, the others get the current speed *)
sweep(objs, speed) ==
  LET kept == SelectSeq(objs, LAMBDA o : ~(o.x < OFFSCREEN_X))
  IN  [i \in 1..Len(kept) |-> [kept[i] EXCEPT !.vx = -speed]]

(* a tick that computes the level without the + 1 *)
updateLevelLate(w) ==
  IF ~w.g.gameStarted \/ w.g.gameOver \/ w.g.isPaused THEN w
  ELSE
    LET w1 == [w EXCEPT !.g.speed = @ + SPEED_INCREMENT, !.h.ticks = @ + 1]
        newLevel == w1.g.score \div SCORE_PER_LEVEL
        w2 == IF newLevel > w1.g.level THEN levelUp(w1, newLevel) ELSE w1
    IN  [w2 EXCEPT !.g.obstacles = sweep(@, w2.g.speed),
                   !.g.coins = sweep(@, w2.g.speed),
                   !.g.canDoubleJump = IF w2.g.player.touchingDown THEN TRUE ELSE @]

(* a tick that levels up again on every tick spent above the first level *)
updateLevelAgain(w) ==
  IF ~w.g.gameStarted \/ w.g.gameOver \/ w.g.isPaused THEN w
  ELSE
    LET w1 == [w EXCEPT !.g.speed = @ + SPEED_INCREMENT, !.h.ticks = @ + 1]
        newLevel == (w1.g.score \div SCORE_PER_LEVEL) + 1
        w2 == IF newLevel > 1 /\ newLevel >= w1.g.level THEN levelUp(w1, newLevel) ELSE w1
    IN  [w2 EXCEPT !.g.obstacles = sweep(@, w2.g.speed),
                   !.g.coins = sweep(@, w2.g.speed),
                   !.g.canDoubleJump = IF w2.g.player.touchingDown THEN TRUE ELSE @]

(* a tick that never looks at the level *)
updateNoLevel(w) ==
  IF ~w.g.gameStarted \/ w.g.gameOver \/ w.g.isPaused THEN w
  ELSE
    LET w1 == [w EXCEPT !.g.speed = @ + SPEED_INCREMENT, !.h.ticks = @ + 1]
    IN  [w1 EXCEPT !.g.obstacles = sweep(@, w1.g.speed),
                   !.g.coins = sweep(@, w1.g.speed),
                   !.g.canDoubleJump = IF w1.g.player.touchingDown THEN TRUE ELSE @]

update(w) ==
  IF ~w.g.gameStarted \/ w.g.gameOver \/ w.g.isPaused THEN w
  ELSE
    LET w1 == [w EXCEPT !.g.speed = @ + SPEED_INCREMENT, !.h.ticks = @ + 1]
        newLevel == (w1.g.score \div SCORE_PER_LEVEL) + 1
        w2 == IF newLevel > w1.g.level THEN levelUp(w1, newLevel) ELSE w1
    IN  [w2 EXCEPT !.g.obstacles = sweep(@, w2.g.speed),
                   !.g.coins = sweep(@, w2.g.speed),
                   !.g.canDoubleJump = IF w2.g.player.touchingDown THEN TRUE ELSE @]

grantRevivePowerUp(w) == [w EXCEPT !.g.revive = TRUE, !.h.uses = 0]

RemoveAt(seq, i) == SubSeq(seq, 1, i - 1) \o SubSeq(seq, i + 1, Len(seq))

(* a collection that stores the score as the high score every time *)
collectCoinAlwaysHigh(w, i) ==
  LET coin == w.g.coins[i]
      w1 == [w EXCEPT !.g.coins = RemoveAt(@, i),
                      !.g.score = @ + SCORE_PER_COIN]
      w2 == [w1 EXCEPT !.s = setCurrentScore(w1.s, w1.g.score)]
      w3 == [w2 EXCEPT !.g.highScore = w2.g.score,
                       !.s = setHighScore(w2.s, w2.g.score)]
  IN  IF coin.kind = "coin_revive" THEN grantRevivePowerUp(w3)
      ELSE [w3 EXCEPT !.h.coins = @ + 1]

(* collectCoin(player, coin) for the coin at index i of the group *)
collectCoin(w, i) ==
  LET coin == w.g.coins[i]
      w1 == [w EXCEPT !.g.coins = RemoveAt(@, i),
                      !.g.score = @ + SCORE_PER_COIN]
      w2 == [w1 EXCEPT !.s = setCurrentScore(w1.s, w1.g.score)]
      w3 == IF w2.g.score > w2.g.highScore
            THEN [w2 EXCEPT !.g.highScore = w2.g.score,
                            !.s = setHighScore(w2.s, w2.g.score)]
            ELSE w2
  IN  IF coin.kind = "coin_revive" THEN grantRevivePowerUp(w3)
      ELSE [w3 EXCEPT !.h.coins = @ + 1]

(***************************************************************************)
(* The physics world's step (Phaser Arcade): bodies move by their          *)
(* velocity, then the overlap colliders run in the order setupPhysics      *)
(* added them: player/obstacles (hitObstacle), player/coins (collectCoin). *)
(* Which bodies overlap the player, and whether the player lands, is the   *)
(* geometry the framework computes; the step takes it as input.            *)
(***************************************************************************)
moveBody(o) == [o EXCEPT !.x = @ + (o.vx * StepMs) \div 1000]

movePlayer(p, land) ==
  IF p.vy < 0 THEN [p EXCEPT !.y = AIR_Y, !.vy = FALL_VELOCITY, !.touchingDown = FALSE]
  ELSE IF p.touchingDown \/ land
  THEN [p EXCEPT !.y = GROUND_REST_Y, !.vy = 0, !.touchingDown = TRUE]
  ELSE [p EXCEPT !.y = AIR_Y, !.vy = FALL_VELOCITY, !.touchingDown = FALSE]

worldStep(w, hit, coinIdx, land) ==
  LET w1 == [w EXCEPT !.g.obstacles = [i \in 1..Len(@) |-> moveBody(@[i])],
                      !.g.coins = [i \in 1..Len(@) |-> moveBody(@[i])],
                      !.g.player = movePlayer(@, land)]
      w2 == IF hit THEN hitObstacle(w1) ELSE w1
  IN  IF coinIdx > 0 /\ ~w2.h.error THEN collectCoin(w2, coinIdx) ELSE w2

(***************************************************************************)
(* Input handlers of setupInputHandlers and createBottomUI                 *)
(***************************************************************************)
(* a SPACE key that restarts after any game over, token or not *)
keydownSPACEAlways(w) ==
  IF ~w.g.gameStarted THEN startGame(w)
  ELSE IF w.g.gameOver THEN restartGame(w)
  ELSE IF ~w.g.isPaused THEN jump(w)
  ELSE w

keydownSPACE(w) ==
  IF ~w.g.gameStarted THEN startGame(w)
  ELSE IF w.g.gameOver /\ ~w.g.revive THEN restartGame(w)
  ELSE IF ~w.g.isPaused THEN jump(w)
  ELSE w

keydownP(w) == IF w.g.gameStarted /\ ~w.g.gameOver THEN togglePause(w) ELSE w

startBtn(w) == IF ~w.g.gameStarted THEN startGame(w) ELSE w

jumpBtn(w) ==
  IF w.g.gameStarted /\ ~w.g.gameOver /\ ~w.g.isPaused THEN jump(w) ELSE w

pauseBtn(w) == IF w.g.gameStarted /\ ~w.g.gameOver THEN togglePause(w) ELSE w

restartBtn(w) == IF w.g.gameOver /\ ~w.g.revive THEN restartGame(w) ELSE w

reviveBtn(w) == IF w.g.gameOver /\ w.g.revive THEN useRevive(w) ELSE w

(* the popup's continue button and its 5 s delayedCall *)
beginPendingRun(w) == IF w.g.gameStarted THEN performRestart(w) ELSE performStartGame(w)

continueBtn(w, i) ==
  beginPendingRun([w EXCEPT !.g.popups[i].active = FALSE])

(* a delayedCall that begins the run whether or not the popup is still up *)
autoCloseAlways(w, i) ==
  beginPendingRun([w EXCEPT !.g.popups = RemoveAt(@, i)])

(* once the delayedCall has fired nothing refers to the popup any more *)
autoClose(w, i) ==
  LET w1 == [w EXCEPT !.g.popups = RemoveAt(@, i)]
  IN  IF w.g.popups[i].active THEN beginPendingRun(w1) ELSE w1

(***************************************************************************)
(* SettingsScene                                                           *)
(***************************************************************************)
(* String.prototype.trim on the texts the model types *)
trim(text) ==
  CASE text = " " -> ""
    [] text = " ann " -> "ann"
    [] OTHER -> text

setUsername(s, username) ==
  IF username # "" /\ trim(username) # "" THEN [s EXCEPT !.username = trim(username)] ELSE s

saveUsername(s, username) ==
  IF trim(username) # ""
  THEN LET oldUsername == getUsername(s)
           newUsername == trim(username)
           s1 == setUsername(s, newUsername)
       IN  IF oldUsername # newUsername /\ oldUsername # ""
           THEN updateLeaderboardUsernames(s1, oldUsername, newUsername)
           ELSE s1
  ELSE s

(* a confirmation that empties the list and keeps the high score *)
clearScoresOnly(s) == setItem(s, "leaderboard", <<>>)

clearConfirmYes(s) == setHighScore(clearLeaderboard(s), 0)

clearConfirmNo(s) == s

(***************************************************************************)
(* State after the page has loaded: the managers' constructors and         *)
(* initializeLocalStorage have written the defaults, the scene manager     *)
(* runs MainMenuScene and GameScene has not been created yet.              *)
(***************************************************************************)
FreshStorage ==
  [highScore |-> 0, currentScore |-> 0, gamePlayCount |-> 0, adViewCount |-> 0,
   showAds |-> "true", username |-> "Anonymous", leaderboard |-> <<>>,
   unparseable |-> {}]

BlankScene ==
  [score |-> 0, level |-> 1, speed |-> INITIAL_SPEED, spawnDelay |-> INITIAL_SPAWN_DELAY,
   canDoubleJump |-> TRUE, gameOver |-> FALSE, isPaused |-> FALSE, gameStarted |-> FALSE,
   reviveGivenThisLevel |-> FALSE, highScore |-> 0, revive |-> FALSE,
   gamePlayCount |-> 0, adViewCount |-> 0,
   player |-> NewPlayer(PLAYER_START_X, PLAYER_START_Y - 10000),
   obstacles |-> <<>>, coins |-> <<>>,
   physicsPaused |-> TRUE, timerPaused |-> TRUE, timerDelay |-> INITIAL_SPAWN_DELAY,
   popups |-> <<>>]

NoHistory ==
  [ticks |-> 0, reviveCoins |-> 0, levelUps |-> 0, saved |-> 0, over |-> "no", via |-> "create",
   base |-> 0, run |-> 0, uses |-> 0, coins |-> 0, error |-> FALSE, build |-> "modules"]

(* localStorage of a returning player: n earlier runs of the default       *)
(* player, three of them ended at 30 points and the others, the last one   *)
(* among them, at 20; no ad was skipped                                    *)
SeedEntry(i) ==
  [score |-> IF i <= 3 THEN 30 ELSE 20, date |-> Today, level |-> 1,
   username |-> "Anonymous"]

ReturningStorage(n) ==
  [FreshStorage EXCEPT !.highScore = 30, !.currentScore = 20, !.gamePlayCount = n,
                       !.adViewCount = n \div AD_INTERVAL,
                       !.leaderboard = [i \in 1..n |-> SeedEntry(i)]]

InitWith(s) ==
  /\ storage = s
  /\ game = BlankScene
  /\ scene = "MainMenuScene"
  /\ hist = [NoHistory EXCEPT !.base = s.gamePlayCount]

Init == InitWith(FreshStorage)

InitLB ==
  \E n \in {0, TOP_N} :
    InitWith(IF n = 0 THEN FreshStorage ELSE ReturningStorage(n))

InitCap == InitWith(ReturningStorage(LEADERBOARD_KEEP))


W == [g |-> game, s |-> storage, h |-> hist]

Commit(w) ==
  /\ game' = w.g
  /\ storage' = w.s
  /\ hist' = w.h
  /\ UNCHANGED scene

InGame == scene = "GameScene"

(* a handler that would start or restart a run is taken while the          *)
(* games-played counter and the number of popups are within the bounds     *)
WithinGames(w, maxGames) ==
  /\ w.s.gamePlayCount - w.h.base <= maxGames
  /\ Len(w.g.popups) <= MaxPopups

(***************************************************************************)
(* Scene manager                                                           *)
(***************************************************************************)
PlayButton ==
  /\ scene = "MainMenuScene"
  /\ scene' = "GameScene"
  /\ LET w == create(W)
     IN  game' = w.g /\ storage' = w.s /\ hist' = w.h

SettingsButton ==
  /\ scene = "MainMenuScene"
  /\ scene' = "SettingsScene"
  /\ UNCHANGED <<game, storage, hist>>

BackButton ==
  /\ scene = "SettingsScene"
  /\ scene' = "MainMenuScene"
  /\ UNCHANGED <<game, storage, hist>>

(* scene.start('MainMenuScene') shuts GameScene down: its display list,    *)
(* physics world and clock events are destroyed.  The fields of the        *)
(* instance are dead from here on (create() assigns every one of them      *)
(* before any read), so the shut-down scene is held as BlankScene.         *)
MenuBtn ==
  /\ InGame
  /\ scene' = "MainMenuScene"
  /\ game' = BlankScene
  /\ hist' = [NoHistory EXCEPT !.base = hist.base, !.build = hist.build]
  /\ UNCHANGED storage

(***************************************************************************)
(* GameScene callbacks                                                     *)
(***************************************************************************)
KeydownSPACE(maxGames) ==
  /\ InGame
  /\ WithinGames(keydownSPACE(W), maxGames)
  /\ Commit(keydownSPACE(W))

KeydownP == InGame /\ Commit(keydownP(W))

StartBtn(maxGames) ==
  /\ InGame
  /\ WithinGames(startBtn(W), maxGames)
  /\ Commit(startBtn(W))

JumpBtn == InGame /\ Commit(jumpBtn(W))

PauseBtn == InGame /\ Commit(pauseBtn(W))

RestartBtn(maxGames) ==
  /\ InGame
  /\ WithinGames(restartBtn(W), maxGames)
  /\ Commit(restartBtn(W))

ReviveBtn == InGame /\ Commit(reviveBtn(W))

ContinueBtn ==
  /\ InGame
  /\ \E i \in 1..Len(game.popups) :
       /\ game.popups[i].active
       /\ Commit(continueBtn(W, i))

AutoClose ==
  /\ InGame
  /\ \E i \in 1..Len(game.popups) :
       /\ game.popups[i].timer
       /\ Commit(autoClose(W, i))

Update(maxTicks) ==
  /\ InGame
  /\ update(W).h.ticks <= maxTicks
  /\ Commit(update(W))

SpawnTimer ==
  /\ InGame
  /\ ~game.timerPaused
  /\ Len(game.obstacles) < MaxObjects
  /\ Len(game.coins) < MaxObjects
  /\ \E roll \in BOOLEAN : Commit(spawnTimerCallback(W, roll))

OnScreen(objs) == \A i \in 1..Len(objs) : ~(objs[i].x < OFFSCREEN_X)

(* An ad popup closes itself 5000 ms after it is shown.  While its timer   *)
(* is pending nothing can reach the player: a restart popup is shown with  *)
(* physics paused and pause refused, and after a start popup the first     *)
(* object spawns INITIAL_SPAWN_DELAY (1500 ms) after the timer is resumed  *)
(* and needs more than 4 s for the 700 px to the player at 150 px/s.       *)
TimerPending == \E i \in 1..Len(game.popups) : game.popups[i].timer

WorldStep(maxScore) ==
  /\ InGame
  /\ ~game.physicsPaused
  /\ OnScreen(game.obstacles) /\ OnScreen(game.coins)
  /\ \E hit \in BOOLEAN, coinIdx \in 0..Len(game.coins), land \in BOOLEAN :
       /\ hit => game.obstacles # <<>> /\ ~TimerPending
       /\ coinIdx > 0 => ~TimerPending
       /\ coinIdx > 0 => game.score + SCORE_PER_COIN <= maxScore
       /\ Commit(worldStep(W, hit, coinIdx, land))

(***************************************************************************)
(* SettingsScene callbacks                                                 *)
(***************************************************************************)
SaveUsername ==
  /\ scene = "SettingsScene"
  /\ \E u \in Typed :
       /\ storage' = saveUsername(storage, u)
  /\ UNCHANGED <<game, hist, scene>>

SetShowAds ==
  /\ scene = "SettingsScene"
  /\ \E show \in BOOLEAN : storage' = setShowAds(storage, show)
  /\ UNCHANGED <<game, hist, scene>>

ClearYes ==
  /\ scene = "SettingsScene"
  /\ storage' = clearConfirmYes(storage)
  /\ UNCHANGED <<game, hist, scene>>

ClearNo ==
  /\ scene = "SettingsScene"
  /\ storage' = clearConfirmNo(storage)
  /\ UNCHANGED <<game, hist, scene>>

(***************************************************************************)
(* Spec: the game scene from a fresh page load, ads enabled.               *)
(***************************************************************************)
Next ==
  \/ PlayButton \/ MenuBtn
  \/ KeydownSPACE(MaxGames) \/ KeydownP
  \/ StartBtn(MaxGames) \/ JumpBtn \/ PauseBtn \/ RestartBtn(MaxGames) \/ ReviveBtn
  \/ ContinueBtn \/ AutoClose
  \/ Update(MaxTicks) \/ SpawnTimer \/ WorldStep(MaxScore)

Spec == Init /\ [][Next]_vars

(***************************************************************************)
(* SpecLevel: the first run of the page load is long enough to level up,   *)
(* the runs after a restart are short.                                     *)
(***************************************************************************)
FirstRun == storage.gamePlayCount - hist.base <= 1

NextLevel ==
  \/ PlayButton
  \/ StartBtn(MaxGamesLevel) \/ PauseBtn
  \/ RestartBtn(MaxGamesLevel) \/ ReviveBtn
  \/ Update(IF FirstRun THEN MaxTicksLevel ELSE MaxTicks)
  \/ SpawnTimer
  \/ WorldStep(IF FirstRun THEN MaxScoreLevel ELSE MaxScore)

SpecLevel == Init /\ [][NextLevel]_vars

(***************************************************************************)
(* SpecLB: the leaderboard of a new or a returning player, with the        *)
(* settings scene.                                                         *)
(***************************************************************************)
NextLB ==
  \/ PlayButton \/ MenuBtn \/ SettingsButton \/ BackButton
  \/ SaveUsername \/ ClearYes \/ ClearNo
  \/ KeydownSPACE(MaxGamesLB) \/ RestartBtn(MaxGamesLB) \/ ReviveBtn
  \/ Update(MaxTicksLB) \/ SpawnTimer \/ WorldStep(MaxScoreLB)

SpecLB == InitLB /\ [][NextLB]_vars

(***************************************************************************)
(* SpecCap: a returning player whose leaderboard is full.                  *)
(***************************************************************************)
NextCap ==
  \/ PlayButton \/ MenuBtn
  \/ StartBtn(MaxGamesCap) \/ RestartBtn(MaxGamesCap) \/ ReviveBtn
  \/ Update(MaxTicksCap) \/ SpawnTimer \/ WorldStep(MaxScoreCap)

SpecCap == InitCap /\ [][NextCap]_vars

(***************************************************************************)
(* SpecAds: starts and restarts of a new or a returning player who may     *)
(* switch the ads off and on in the settings scene.                        *)
(***************************************************************************)
NextAds ==
  \/ PlayButton \/ MenuBtn \/ SettingsButton \/ BackButton
  \/ SetShowAds
  \/ KeydownSPACE(MaxGamesAds) \/ StartBtn(MaxGamesAds) \/ RestartBtn(MaxGamesAds)
  \/ ContinueBtn \/ AutoClose
  \/ Update(MaxTicksAds) \/ SpawnTimer \/ WorldStep(MaxScoreAds)

SpecAds == InitLB /\ [][NextAds]_vars

(***************************************************************************)
(* SpecCorrupt: a returning player some of whose stored texts are not      *)
(* numbers or not JSON when the page loads (initializeLocalStorage         *)
(* replaces missing texts only), under the build with the manager classes  *)
(* and under the single-file build, whose game scene reads localStorage    *)
(* itself.                                                                 *)
(***************************************************************************)
StoredKeys == {"leaderboard", "highScore", "currentScore", "gamePlayCount", "adViewCount"}

Unparseable(s, keys) ==
  [k \in DOMAIN s |->
     IF k = "unparseable" THEN keys
     ELSE IF k \in keys THEN (IF k = "leaderboard" THEN <<>> ELSE 0)
     ELSE s[k]]

InitCorrupt ==
  \E build \in {"modules", "single"} :
    \E keys \in SUBSET (IF build = "single" THEN {"leaderboard"} ELSE StoredKeys) :
      /\ storage = Unparseable(ReturningStorage(AD_INTERVAL), keys)
      /\ game = BlankScene
      /\ scene = "MainMenuScene"
      /\ hist = [NoHistory EXCEPT !.base = storage.gamePlayCount, !.build = build]

NextCorrupt ==
  \/ PlayButton \/ MenuBtn
  \/ KeydownSPACE(MaxGamesCorrupt) \/ RestartBtn(MaxGamesCorrupt) \/ ReviveBtn
  \/ Update(MaxTicksCorrupt) \/ SpawnTimer \/ WorldStep(MaxScoreCorrupt)

SpecCorrupt == InitCorrupt /\ [][NextCorrupt]_vars

(***************************************************************************)
(* SpecLive: the game scene with its frames scheduled for ever.  The game  *)
(* loop calls update() and steps the physics world on every frame, so a    *)
(* tick or a world step that is possible again and again is taken.  The    *)
(* tick bound is spent on spawning: the timer fires while ticks are left,  *)
(* and one more tick is granted to an object that has left the screen.     *)
(***************************************************************************)
SpawnTimerLive ==
  /\ hist.ticks < MaxTicksLive
  /\ SpawnTimer

UpdateLive ==
  /\ InGame
  /\ \/ hist.ticks < MaxTicksLive
     \/ /\ hist.ticks < MaxTicksLive + 1
        /\ ~(OnScreen(game.obstacles) /\ OnScreen(game.coins))
  /\ Commit(update(W))

NextLive ==
  \/ PlayButton \/ MenuBtn
  \/ KeydownSPACE(MaxGamesLive) \/ KeydownP
  \/ RestartBtn(MaxGamesLive) \/ ReviveBtn
  \/ UpdateLive \/ SpawnTimerLive \/ WorldStep(MaxScoreLive)

SpecLive ==
  /\ Init /\ [][NextLive]_vars
  /\ SF_vars(UpdateLive)
  /\ SF_vars(WorldStep(MaxScoreLive))

(***************************************************************************)
(* Properties of the leaderboard                                           *)
(***************************************************************************)
Sorted(b) == \A i \in 1..(Len(b) - 1) : b[i].score >= b[i + 1].score

CountScore(b, v) == Cardinality({i \in 1..Len(b) : b[i].score = v})

CountEntry(b, e) == Cardinality({i \in 1..Len(b) : b[i] = e})

Scores(b) == {b[i].score : i \in 1..Len(b)}

(* C1: whatever game overs, username edits and clears have happened, the   *)
(* persisted leaderboard holds at most ten entries.                        *)
C1_AtMostTen == Len(storage.leaderboard) <= TOP_N

(* C2: after any insertions, username edits and clears the persisted       *)
(* leaderboard is ordered by score, highest first.                         *)
C2_Sorted == Sorted(storage.leaderboard)

(* a new player's leaderboard after two insertions and a username edit,    *)
(* holding different scores                                                *)
C2_Witness ==
  /\ hist.base = 0
  /\ Len(storage.leaderboard) >= 2
  /\ storage.leaderboard[1].score > storage.leaderboard[Len(storage.leaderboard)].score
  /\ storage.leaderboard[1].username = "ann"

(* C3: an insertion into a leaderboard at its cap keeps the highest        *)
(* scores: no score that was dropped is greater than a score that was      *)
(* kept, and a new entry that beats the lowest stored score is kept.       *)
C3_KeepsHighest ==
  [][ (Len(storage.leaderboard) = LEADERBOARD_KEEP /\ hist'.saved = hist.saved + 1) =>
        LET old      == storage.leaderboard
            new      == storage'.leaderboard
            newEntry == [score |-> game.score, date |-> Today, level |-> game.level,
                         username |-> storage.username]
            pushed   == Append(old, newEntry)
            dropped  == {v \in Scores(pushed) : CountScore(pushed, v) > CountScore(new, v)}
        IN  /\ Len(new) = LEADERBOARD_KEEP
            /\ \A v \in Scores(pushed) : CountScore(new, v) <= CountScore(pushed, v)
            /\ \A v \in dropped : \A i \in 1..Len(new) : v <= new[i].score
            /\ (\E i \in 1..Len(old) : game.score > old[i].score) =>
                  CountEntry(new, newEntry) = CountEntry(old, newEntry) + 1
    ]_vars

(* a full leaderboard that has taken a run of 30 points: the seed holds    *)
(* three entries of 30 and has 20 in the fourth place                      *)
C3_Witness ==
  /\ Len(storage.leaderboard) = LEADERBOARD_KEEP
  /\ hist.saved = 1
  /\ storage.leaderboard[4].score = 30
  /\ storage.leaderboard[LEADERBOARD_KEEP].score = 20

(***************************************************************************)
(* Properties of the game scene.  A step is one callback (an input         *)
(* handler, a tick of update, a firing of the spawn timer, a step of the   *)
(* physics world with the overlap callbacks it runs).                      *)
(***************************************************************************)
Halted(g) == g.gameOver /\ g.physicsPaused /\ g.timerPaused

(* the step in which hitObstacle took the normal branch *)
NormalGameOverStep == InGame /\ hist.over = "no" /\ hist'.over = "normal"

(* the step in which hitObstacle took the revive branch *)
ReviveGameOverStep == InGame /\ hist.over = "no" /\ hist'.over = "revive"

RestartStep == InGame /\ InGame' /\ hist'.run = hist.run + 1

ReviveStep == InGame /\ hist'.uses = hist.uses + 1

StartStep == InGame /\ ~game.gameStarted /\ game'.gameStarted

TickStep == InGame /\ hist'.ticks = hist.ticks + 1

SameRun == InGame /\ InGame' /\ hist'.run = hist.run

(* C4: an obstacle hit without a revive token at score s adds the entry    *)
(* (s, level) to the leaderboard when s > 0 and leaves the leaderboard     *)
(* alone when s = 0, makes the high score max(previous, s), sets gameOver  *)
(* and halts the simulation, which stays halted until a restart.           *)
C4_NormalGameOver ==
  [][ /\ NormalGameOverStep =>
           LET s == game.score
               e == [score |-> s, date |-> Today, level |-> game.level,
                     username |-> storage.username]
           IN  /\ s > 0 => /\ Len(storage'.leaderboard) = Len(storage.leaderboard) + 1
                            /\ CountEntry(storage'.leaderboard, e)
                                 = CountEntry(storage.leaderboard, e) + 1
               /\ s = 0 => storage'.leaderboard = storage.leaderboard
               /\ storage'.highScore = Max(storage.highScore, s)
               /\ Halted(game')
      /\ (InGame /\ InGame' /\ hist.over = "normal") => (Halted(game') \/ RestartStep)
    ]_vars

(* C5: an obstacle hit with a revive token held suspends the scene         *)
(* (gameOver, physics and spawn timer paused) and writes no leaderboard    *)
(* entry; while suspended no restart is accepted and score, level, speed   *)
(* and spawn delay keep their values, until the revive is used or the      *)
(* player leaves to the menu.                                              *)
Suspended == InGame /\ game.gameOver /\ hist.over = "revive"

C6_UseRevive ==
  [][ /\ ReviveStep =>
           /\ game.revive
           /\ ~game'.gameOver
           /\ ~game'.revive
           /\ game'.player = [game.player EXCEPT !.x = PLAYER_START_X, !.y = REVIVE_Y, !.vy = 0]
           /\ ~game'.physicsPaused
           /\ ~game'.timerPaused
           /\ game'.score = game.score
           /\ game'.level = game.level
           /\ game'.speed = game.speed
           /\ game'.spawnDelay = game.spawnDelay
           /\ game'.highScore = game.highScore
           /\ storage' = storage
      /\ (InGame /\ ~game.revive) => useRevive(W) = W
    ]_vars

(* the player has been put back into play by a revive *)
C6_Witness ==
  /\ InGame
  /\ hist.via = "revive"
  /\ hist.uses = 1
  /\ ~game.gameOver
  /\ game.player.y = REVIVE_Y
  /\ ~game.physicsPaused

(* C7: the token is one flag used once: once it has been used and no       *)
(* revive coin collected since, no token is held and the next hit is a     *)
(* normal game over; start, restart and normal game over leave no token    *)
(* held.                                                                   *)
C7_SingleToken ==
  [][ /\ (InGame /\ hist.uses > 0) => ~game.revive
      /\ (InGame /\ hist.uses > 0 /\ hist.over = "no" /\ hist'.over # "no") =>
             hist'.over = "normal"
      /\ StartStep => ~game'.revive
      /\ RestartStep => ~game'.revive
      /\ NormalGameOverStep => ~game'.revive
    ]_vars

(* C8: between the start of a run and its first level-up, and between two  *)
(* level-ups, at most one revive coin is spawned.                          *)
C8_OneReviveCoinPerLevel == hist.reviveCoins <= 1

(* a revive coin has been spawned in a level the run has climbed to *)
C8_Witness ==
  /\ InGame
  /\ hist.levelUps >= 1
  /\ game.level >= 2
  /\ hist.reviveCoins = 1
  /\ game.reviveGivenThisLevel

(* C9: within a run no step lowers the speed; an effective tick raises it  *)
(* by SPEED_INCREMENT, and by the level bonus on top when it levels up.    *)
C9_SpeedNeverDrops ==
  [][ SameRun =>
        /\ game'.speed >= game.speed
        /\ TickStep =>
             game'.speed = game.speed + SPEED_INCREMENT
                           + (IF game'.level > game.level
                              THEN LEVEL_SPEED_BONUS * (game'.level - 1) ELSE 0)
        /\ (TickStep /\ game'.level > game.level) =>
             game'.speed > game.speed + SPEED_INCREMENT
    ]_vars

(* a run that has levelled up and been revived *)
C9_Witness ==
  /\ InGame
  /\ hist.levelUps >= 1
  /\ hist.uses = 1
  /\ game.speed > INITIAL_SPEED + LEVEL_SPEED_BONUS

(* C10: after an effective tick the level is floor(score / 100) + 1, and   *)
(* within a run the level never goes down.                                 *)
C10_LevelFollowsScore ==
  [][ /\ TickStep => game'.level = (game'.score \div SCORE_PER_LEVEL) + 1
      /\ SameRun => game'.level >= game.level
    ]_vars

(* a run that has reached the third level *)
C10_Witness ==
  /\ InGame
  /\ hist.ticks > 0
  /\ game.score >= 2 * SCORE_PER_LEVEL
  /\ game.level = 3

(* the spawn delay levelUp gives level l *)
DelayOfLevel(l) ==
  IF INITIAL_SPAWN_DELAY - (l - 1) * SPAWN_DELAY_REDUCTION >= MIN_SPAWN_DELAY
  THEN INITIAL_SPAWN_DELAY - (l - 1) * SPAWN_DELAY_REDUCTION
  ELSE MIN_SPAWN_DELAY

(* C11: within a run levelUp runs once for each increase of the level and  *)
(* at no other step: a step that leaves the level alone applies no speed   *)
(* bonus and no spawn-delay reduction, whatever ticks, pauses and revives  *)
(* occur; the step that raises the level is a tick and applies them once.  *)
C11_LevelUpOnce ==
  [][ SameRun =>
        /\ hist.levelUps <= game.level - 1
        /\ game'.level = game.level =>
             /\ hist'.levelUps = hist.levelUps
             /\ game'.spawnDelay = game.spawnDelay
             /\ game'.speed = game.speed + (IF TickStep THEN SPEED_INCREMENT ELSE 0)
        /\ game'.level # game.level =>
             /\ TickStep
             /\ game'.level > game.level
             /\ hist'.levelUps = hist.levelUps + 1
             /\ game'.speed = game.speed + SPEED_INCREMENT
                               + LEVEL_SPEED_BONUS * (game'.level - 1)
             /\ game'.spawnDelay = DelayOfLevel(game'.level)
    ]_vars

(* a paused run that was revived, levelled up once and has ticked and      *)
(* collected within the second level since                                 *)
C11_Witness ==
  /\ InGame
  /\ game.level = 2
  /\ hist.levelUps = 1
  /\ game.score >= SCORE_PER_LEVEL + 2 * SCORE_PER_COIN
  /\ hist.uses = 1
  /\ game.isPaused

(* C12: from score 0, after ten coins (100 points) the next tick sets the  *)
(* level to 2, adds LEVEL_SPEED_BONUS * (2 - 1) to the speed on top of the *)
(* tick's increment, lowers the spawn delay from 1500 to 1350 and clears   *)
(* the revive-eligibility flag; a level-up to L gives the spawn delay      *)
(* max(MIN_SPAWN_DELAY, INITIAL_SPAWN_DELAY - (L - 1) *                    *)
(* SPAWN_DELAY_REDUCTION).                                                 *)
C12_LevelUpEffects ==
  [][ /\ (TickStep /\ game.level = 1 /\ game.score = 10 * SCORE_PER_COIN) =>
           /\ game'.level = 2
           /\ game'.speed = game.speed + SPEED_INCREMENT + 20000
           /\ game.spawnDelay = 1500
           /\ game'.spawnDelay = 1350
           /\ game'.timerDelay = 1350
           /\ ~game'.reviveGivenThisLevel
      /\ (TickStep /\ game'.level > game.level) =>
           /\ game'.spawnDelay = DelayOfLevel(game'.level)
           /\ ~game'.reviveGivenThisLevel
           /\ \A l \in 2..MaxLevel :
                 LET w == levelUp(W, l)
                 IN  /\ w.g.level = l
                     /\ w.g.spawnDelay = DelayOfLevel(l)
                     /\ w.g.spawnDelay >= MIN_SPAWN_DELAY
                     /\ ~w.g.reviveGivenThisLevel
           /\ levelUp(W, 7).g.spawnDelay = 600
           /\ levelUp(W, 8).g.spawnDelay = 500
    ]_vars

(* the state the tick after the tenth coin of a run leaves *)
C12_Witness ==
  /\ InGame
  /\ game.score = 10 * SCORE_PER_COIN
  /\ game.level = 2
  /\ hist.levelUps = 1
  /\ game.spawnDelay = 1350
  /\ game.speed >= INITIAL_SPEED + LEVEL_SPEED_BONUS
  /\ ~game.reviveGivenThisLevel

(* C13: the spawn delay never goes below MIN_SPAWN_DELAY, and the          *)
(* repeating spawn timer's interval is the current spawn delay.            *)
C13_SpawnDelay ==
  /\ game.spawnDelay >= MIN_SPAWN_DELAY
  /\ game.timerDelay = game.spawnDelay
  /\ (InGame /\ game.level > 1) =>
       \A l \in (game.level + 1)..MaxLevel :
         LET g == levelUp(W, l).g
         IN  g.spawnDelay >= MIN_SPAWN_DELAY /\ g.timerDelay = g.spawnDelay

(* a run begun by a restart after a run that had levelled up *)
C13_Witness ==
  /\ InGame
  /\ hist.via = "restart"
  /\ storage.highScore >= SCORE_PER_LEVEL + SCORE_PER_COIN
  /\ game.level = 1
  /\ game.spawnDelay = INITIAL_SPAWN_DELAY
  /\ ~game.timerPaused

C15_HighScore ==
  [][ (InGame /\ InGame') =>
        /\ storage'.highScore >= storage.highScore
        /\ game'.highScore >= game.highScore
        /\ game'.score = game.score + SCORE_PER_COIN =>
             /\ storage'.currentScore = game'.score
             /\ storage'.highScore = Max(storage.highScore, game'.score)
             /\ game'.highScore = storage'.highScore
    ]_vars

(* a returning player has collected a coin below the stored high score *)
C15_Witness ==
  /\ InGame
  /\ hist.coins >= 1
  /\ game.score > 0
  /\ storage.currentScore = game.score
  /\ storage.highScore > game.score


(* C16: the player's velocity becomes JUMP_VELOCITY only by a jump of a    *)
(* grounded player and DOUBLE_JUMP_VELOCITY only by a jump of an airborne  *)
(* player whose double jump is available, which uses it up; after that a   *)
(* jump changes nothing until the player has been found touching the       *)
(* ground, which restores the double jump.                                 *)
C16_Jump ==
  [][ SameRun =>
        /\ (game'.player.vy = JUMP_VELOCITY /\ game.player.vy # JUMP_VELOCITY) =>
             game.player.touchingDown /\ game'.canDoubleJump
        /\ (game'.player.vy = DOUBLE_JUMP_VELOCITY /\ game.player.vy # DOUBLE_JUMP_VELOCITY) =>
             /\ ~game.player.touchingDown
             /\ game.canDoubleJump
             /\ ~game'.canDoubleJump
        /\ (~game.canDoubleJump /\ game'.canDoubleJump) => game.player.touchingDown
        /\ (TickStep /\ game.player.touchingDown) => game'.canDoubleJump
        /\ game.player.touchingDown => jump(W).g.player.vy = JUMP_VELOCITY
        /\ (~game.player.touchingDown /\ game.canDoubleJump) =>
             jump(W).g.player.vy = DOUBLE_JUMP_VELOCITY
        /\ (~game.player.touchingDown /\ ~game.canDoubleJump) => jump(W) = W
    ]_vars

(* a player in flight who has used the double jump *)
C16_Witness ==
  /\ InGame
  /\ game.gameStarted
  /\ ~game.gameOver
  /\ ~game.canDoubleJump
  /\ ~game.player.touchingDown
  /\ game.player.vy = FALL_VELOCITY

(* the entries of b with every username equal to old replaced by new, and  *)
(* nothing else changed                                                    *)
Renamed(b, c, old, new) ==
  /\ Len(c) = Len(b)
  /\ \A i \in 1..Len(b) :
       /\ c[i].score = b[i].score
       /\ c[i].level = b[i].level
       /\ c[i].date = b[i].date
       /\ c[i].username = (IF b[i].username = old THEN new ELSE b[i].username)

(* C17: saving a username that differs from the old one rewrites the       *)
(* username of the leaderboard entries that carry the old one and leaves   *)
(* the other entries, all scores, levels and dates, the number of entries  *)
(* and their order as they were.                                           *)
C17_Rename ==
  [][ scene = "SettingsScene" =>
        /\ storage'.username # storage.username =>
             /\ Renamed(storage.leaderboard, storage'.leaderboard,
                        storage.username, storage'.username)
             /\ storage'.highScore = storage.highScore
        /\ \A old \in Names \cup {"bob"}, new \in Names :
             Renamed(storage.leaderboard,
                     updateLeaderboardUsernames(storage, old, new).leaderboard, old, new)
    ]_vars

(* the ten entries of a returning player after a rename *)
C17_Witness ==
  /\ hist.base = TOP_N
  /\ storage.username = "ann"
  /\ Len(storage.leaderboard) >= TOP_N
  /\ \A i \in 1..Len(storage.leaderboard) : storage.leaderboard[i].username = "ann"

(* C18: whenever the game scene is paused (isPaused) the physics world and *)
(* the spawn timer are paused too, and isPaused changes only in a started  *)
(* run that is not game over.                                              *)
C18_PauseHalts ==
  [][ /\ InGame' /\ game'.isPaused => game'.physicsPaused /\ game'.timerPaused
      /\ InGame /\ InGame' /\ game'.isPaused # game.isPaused =>
            game.gameStarted /\ ~game.gameOver
    ]_vars

(* the pause toggled in a started run that is not game over *)
C18_Toggled ==
  [][ InGame /\ InGame' /\ game'.isPaused # game.isPaused =>
        game.gameStarted /\ ~game.gameOver ]_vars

(* what a game over freezes, the player's motion aside *)
FrozenWorld ==
  /\ game'.score = game.score
  /\ game'.level = game.level
  /\ game'.speed = game.speed
  /\ game'.spawnDelay = game.spawnDelay
  /\ game'.obstacles = game.obstacles
  /\ game'.coins = game.coins

FrozenPlayer ==
  /\ game'.player.vy = game.player.vy
  /\ game'.canDoubleJump = game.canDoubleJump

(* C19: while gameOver holds the physics world and the spawn timer are     *)
(* paused and no tick, spawn firing or input changes the score, level,     *)
(* speed, spawn delay, obstacles, coins, or the player's velocity and      *)
(* double-jump eligibility; only a restart or a revive ends the game over. *)
C19_GameOverFrozen ==
  [][ /\ InGame' /\ game'.gameOver => game'.physicsPaused /\ game'.timerPaused
      /\ InGame /\ InGame' /\ game.gameOver /\ game'.gameOver =>
            FrozenWorld /\ FrozenPlayer
      /\ InGame /\ InGame' /\ game.gameOver /\ ~game'.gameOver =>
            RestartStep \/ ReviveStep
    ]_vars

(* the same with the player's velocity and double-jump eligibility left out *)
C19_WorldFrozen ==
  [][ /\ InGame' /\ game'.gameOver => game'.physicsPaused /\ game'.timerPaused
      /\ InGame /\ InGame' /\ game.gameOver /\ game'.gameOver => FrozenWorld
      /\ InGame /\ InGame' /\ game.gameOver /\ ~game'.gameOver =>
            RestartStep \/ ReviveStep
    ]_vars

(* a start or restart request: the games-played counter goes up by one *)
Request == InGame /\ InGame' /\ storage'.gamePlayCount = storage.gamePlayCount + 1

PopupShown ==
  /\ Len(game'.popups) = Len(game.popups) + 1
  /\ storage'.adViewCount = storage.adViewCount + 1

RunBegins ==
  /\ game'.gameStarted /\ ~game'.gameOver
  /\ ~game'.physicsPaused /\ ~game'.timerPaused
  /\ game'.score = 0

(* C20: a start or restart request shows an ad popup exactly when ads are  *)
(* enabled and the games-played counter, incremented for the request, is   *)
(* a multiple of 3; with ads disabled no popup is shown and the run begins *)
(* at once.                                                                *)
C20_AdPopup ==
  [][ /\ Request =>
            /\ game'.gamePlayCount = storage'.gamePlayCount
            /\ PopupShown <=> (storage.showAds = "true"
                                 /\ storage'.gamePlayCount % AD_INTERVAL = 0)
            /\ ~PopupShown => RunBegins /\ game'.popups = game.popups
      /\ InGame /\ InGame' /\ Len(game'.popups) > Len(game.popups) => Request
      /\ InGame' /\ storage'.showAds = "false" => game'.popups = <<>>
    ]_vars

(* the third game of the page load begun with the ads switched off *)
C20_Witness ==
  /\ InGame
  /\ storage.showAds = "false"
  /\ storage.gamePlayCount > hist.base
  /\ storage.gamePlayCount % AD_INTERVAL = 0
  /\ game.gameStarted /\ ~game.gameOver /\ ~game.physicsPaused
  /\ game.popups = <<>>

(* an ad popup on the screen *)
C20_PopupWitness ==
  /\ InGame
  /\ storage.showAds = "true"
  /\ storage.gamePlayCount % AD_INTERVAL = 0
  /\ Len(game.popups) = 1 /\ game.popups[1].active

(***************************************************************************)
(* Properties of the ad popup                                              *)
(***************************************************************************)
PopupDisplayed(g) == \E i \in 1..Len(g.popups) : g.popups[i].active

RunInProgress(g) == g.gameStarted /\ ~g.gameOver /\ ~g.physicsPaused

(* a displayed popup goes away: the continue button or the auto-close *)
DismissStep ==
  /\ InGame /\ InGame'
  /\ PopupDisplayed(game) /\ ~PopupDisplayed(game')

(* C21: while an ad popup is displayed the physics world and the spawn     *)
(* timer stay paused and score, level and speed do not change, whatever is *)
(* pressed, and dismissing a popup never resets a run in progress.         *)
C21_NoAdsDuringPlay ==
  [][ /\ InGame' /\ PopupDisplayed(game') =>
            game'.physicsPaused /\ game'.timerPaused
      /\ InGame /\ InGame' /\ PopupDisplayed(game) /\ PopupDisplayed(game') =>
            /\ game'.score = game.score
            /\ game'.level = game.level
            /\ game'.speed = game.speed
      /\ DismissStep /\ RunInProgress(game) => hist'.run = hist.run
    ]_vars

(* the parts of C21 taken one by one *)
C21_StaysPaused ==
  InGame /\ PopupDisplayed(game) => game.physicsPaused /\ game.timerPaused

C21_NoChange ==
  [][ InGame /\ InGame' /\ PopupDisplayed(game) /\ PopupDisplayed(game') =>
        game'.score = game.score /\ game'.level = game.level /\ game'.speed = game.speed
    ]_vars

C21_NoReset ==
  [][ DismissStep /\ RunInProgress(game) => hist'.run = hist.run ]_vars

(***************************************************************************)
(* Properties of the statistics counters                                   *)
(***************************************************************************)
(* a run begins: performStartGame after create, or performRestart *)
RunBeginStep ==
  /\ InGame /\ InGame'
  /\ \/ hist.via = "create" /\ hist'.via = "start"
     \/ hist'.run = hist.run + 1

PopupAdded == InGame /\ InGame' /\ Len(game'.popups) = Len(game.popups) + 1

SameProfile(s, t) ==
  /\ t.username = s.username
  /\ t.showAds = s.showAds
  /\ t.gamePlayCount = s.gamePlayCount
  /\ t.adViewCount = s.adViewCount

(* C23: confirming the clear dialog leaves the stored leaderboard empty    *)
(* and the stored high score 0, cancelling leaves both as they were, and   *)
(* neither touches the username, the ad preference or the counters.        *)
C23_Clear ==
  scene = "SettingsScene" =>
    \A show \in BOOLEAN :
      LET s == setShowAds(storage, show)
          yes == clearConfirmYes(s)
          no == clearConfirmNo(s)
      IN  /\ yes.leaderboard = <<>>
          /\ yes.highScore = 0
          /\ SameProfile(s, yes)
          /\ no.leaderboard = s.leaderboard
          /\ no.highScore = s.highScore
          /\ SameProfile(s, no)

(* the same on the steps the settings scene takes *)
C23_ClearStep ==
  [][ scene = "SettingsScene" /\ scene' = "SettingsScene" =>
        /\ SameProfile(storage, storage') \/ storage'.username # storage.username
        /\ storage'.highScore # storage.highScore =>
              storage'.highScore = 0 /\ storage'.leaderboard = <<>>
    ]_vars

(* the settings scene of a returning player who has played and cleared *)
C23_Witness ==
  /\ scene = "SettingsScene"
  /\ hist.base = TOP_N
  /\ storage.gamePlayCount > hist.base
  /\ storage.leaderboard = <<>>
  /\ storage.highScore = 0
  /\ storage.currentScore > 0

(***************************************************************************)
(* Properties of storage reads                                             *)
(***************************************************************************)
(* the obstacle is hit with no token held and a positive score *)
ScoredGameOverStep ==
  /\ InGame /\ InGame'
  /\ ~game.gameOver /\ game'.gameOver
  /\ ~game.revive
  /\ game.score > 0

DefaultsRead(s) ==
  /\ "leaderboard" \in s.unparseable => getLeaderboard(s) = <<>>
  /\ "highScore" \in s.unparseable => getHighScore(s) = 0
  /\ "currentScore" \in s.unparseable => getCurrentScore(s) = 0
  /\ "gamePlayCount" \in s.unparseable => getGamePlayCount(s) = 0
  /\ "adViewCount" \in s.unparseable => getAdViewCount(s) = 0

Recorded ==
  /\ ~hist'.error
  /\ hist'.saved = hist.saved + 1
  /\ "leaderboard" \notin storage'.unparseable
  /\ \E i \in 1..Len(storage'.leaderboard) :
        /\ storage'.leaderboard[i].score = game.score
        /\ storage'.leaderboard[i].level = game.level
  /\ Halted(game')
  /\ hist'.over = "normal"

(* C24: a stored text that is not a number or not JSON is read as the      *)
(* default (0, the empty list) and never as an error, so a game over with  *)
(* an unparseable stored leaderboard completes and records the new entry.  *)
C24_CorruptStorage ==
  [][ /\ DefaultsRead(storage')
      /\ ~hist'.error
      /\ ScoredGameOverStep => Recorded
    ]_vars

(* the same for the build with the manager classes alone *)
C24_Managers ==
  [][ hist.build = "modules" =>
        /\ DefaultsRead(storage')
        /\ ~hist'.error
        /\ ScoredGameOverStep => Recorded
    ]_vars

(* a game over recorded over an unparseable stored leaderboard *)
C24_ManagersWitness ==
  /\ InGame /\ game.gameOver /\ hist.over = "normal"
  /\ hist.build = "modules"
  /\ hist.saved = 1
  /\ Len(storage.leaderboard) = 1
  /\ storage.unparseable = {}
  /\ storage.highScore = game.score

(***************************************************************************)
(* Properties of the record of a run                                       *)
(***************************************************************************)
MenuStep == InGame /\ scene' = "MainMenuScene"

(* C25: when gameOver holds with a positive score and the player restarts  *)
(* or leaves to the menu, the run not having been resumed, a leaderboard   *)
(* entry for the run has been written.                                     *)
C25_RunRecorded ==
  [][ InGame /\ game.gameOver /\ game.score > 0 /\ (RestartStep \/ MenuStep) =>
        hist.saved >= 1
    ]_vars

(* the run state initializeGameState and create give a new scene, the      *)
(* start of the run aside                                                  *)
FreshRun(g, st) ==
  /\ g.score = 0 /\ st.currentScore = 0 /\ "currentScore" \notin st.unparseable
  /\ g.level = 1
  /\ g.speed = INITIAL_SPEED
  /\ g.spawnDelay = INITIAL_SPAWN_DELAY /\ g.timerDelay = INITIAL_SPAWN_DELAY
  /\ ~g.gameOver
  /\ ~g.revive
  /\ g.canDoubleJump
  /\ g.obstacles = <<>> /\ g.coins = <<>>

RestartAccepted ==
  /\ InGame /\ InGame' /\ game.gameStarted
  /\ storage'.gamePlayCount = storage.gamePlayCount + 1

(* C26: a restart is accepted only when gameOver holds and no revive token *)
(* is held, and the restarted run has the state of a freshly created one:  *)
(* score 0 (also stored), level 1, initial speed, spawn delay and timer    *)
(* interval, gameOver and isPaused false, no token, the revive-eligibility *)
(* flag clear, double jump available, no obstacles and no coins.           *)
C26_RestartIsFresh ==
  [][ /\ RestartAccepted => game.gameOver /\ ~game.revive
      /\ RestartStep =>
            /\ FreshRun(game', storage')
            /\ ~game'.isPaused
            /\ ~game'.reviveGivenThisLevel
    ]_vars

(* the same without isPaused and the revive-eligibility flag *)
C26_RestartResets ==
  [][ /\ RestartAccepted => game.gameOver /\ ~game.revive
      /\ RestartStep => FreshRun(game', storage')
    ]_vars

C26_FlagCleared == [][ RestartStep => ~game'.reviveGivenThisLevel ]_vars

C26_NotPaused == [][ RestartStep => ~game'.isPaused ]_vars

(* C27: between a start or restart and the next restart game-over handling *)
(* writes the leaderboard at most once: a run that has written its entry   *)
(* writes no other.                                                        *)
C27_OneEntryPerRun ==
  [][ SameRun /\ hist.saved >= 1 =>
        /\ storage'.leaderboard = storage.leaderboard
        /\ hist'.saved = hist.saved
    ]_vars

ActivePopups(g) == Cardinality({i \in 1..Len(g.popups) : g.popups[i].active})

PendingTimers(g) == Cardinality({i \in 1..Len(g.popups) : g.popups[i].timer})

(* a popup leaves the screen, by either path *)
PopupDismissed ==
  /\ InGame /\ InGame'
  /\ ActivePopups(game') = ActivePopups(game) - 1

(* the delayedCall of a popup dismissed earlier fires *)
LateTimer ==
  /\ InGame /\ InGame'
  /\ PendingTimers(game') = PendingTimers(game) - 1
  /\ ActivePopups(game') = ActivePopups(game)

(* C29: every ad popup begins its pending run exactly once: the dismissal, *)
(* by the continue button or by the 5 s timer, performs the start or       *)
(* restart, a dismissed popup is never dismissed again, and the timer of a *)
(* popup dismissed earlier changes nothing of the run when it fires.       *)
C29_PopupOnce ==
  [][ /\ PopupDismissed => hist'.run = hist.run + 1
      /\ InGame /\ InGame' /\ ActivePopups(game') > ActivePopups(game) => PopupAdded
      /\ RunBeginStep /\ storage'.gamePlayCount = storage.gamePlayCount => PopupDismissed
      /\ LateTimer =>
            /\ game' = [game EXCEPT !.popups = game'.popups]
            /\ storage' = storage
            /\ hist' = hist
    ]_vars

(* the run begun by the continue button, the popup's timer still pending *)
C29_Witness ==
  /\ InGame
  /\ Len(game.popups) = 1
  /\ ~game.popups[1].active /\ game.popups[1].timer
  /\ RunInProgress(game)
  /\ hist.via = "restart"

(***************************************************************************)
(* Properties of the objects                                               *)
(***************************************************************************)
ObjectsPresent == InGame /\ (game.obstacles # <<>> \/ game.coins # <<>>)

NotSimulated == InGame /\ (game.gameOver \/ game.isPaused \/ ~game.gameStarted)

(* C30: if the run keeps being simulated, neither paused nor game over for *)
(* ever, the obstacles and coins on the screen are eventually removed      *)
(* (collected, destroyed left of x = -50, or cleared by a restart or by    *)
(* leaving the scene); until then every tick gives each the current speed, *)
(* to the left, and every world step moves it left.                        *)
C30_ObjectsLeave ==
  /\ [](ObjectsPresent => (<>(~ObjectsPresent) \/ <>[]NotSimulated))
  /\ [][ /\ TickStep =>
               /\ \A i \in 1..Len(game'.obstacles) : game'.obstacles[i].vx = -game'.speed
               /\ \A i \in 1..Len(game'.coins) : game'.coins[i].vx = -game'.speed
               /\ game'.speed > 0
         /\ InGame =>
               /\ \A i \in 1..Len(game.obstacles) :
                     game.obstacles[i].vx < 0 /\ moveBody(game.obstacles[i]).x < game.obstacles[i].x
               /\ \A i \in 1..Len(game.coins) :
                     game.coins[i].vx < 0 /\ moveBody(game.coins[i]).x < game.coins[i].x
     ]_vars

(* a revive coin of the first run that left the screen uncollected *)
C30_Witness ==
  /\ InGame /\ hist.run = 1 /\ hist.uses = 0
  /\ game.gameStarted /\ ~game.gameOver
  /\ game.reviveGivenThisLevel
  /\ game.score = 0
  /\ game.obstacles = <<>> /\ game.coins = <<>>
  /\ hist.ticks >= 1

====
